---- MODULE Spec2Model ----
(***************************************************************************)
(* Model of src/main.cpp: the overlap metric calculate_iou, the duplicate  *)
(* suppressor frame_clean, the set fuser union_frames and the channel      *)
(* reorder rgb2bgr.                                                        *)
(*                                                                         *)
(* A float is modelled as the exact quotient num/den of the two ints the   *)
(* code divides: [num |-> n, den |-> d].  d = 0 with n = 0 is the NaN that *)
(* 0.0f/0.0f gives, d = 0 with n # 0 an infinity.  The coordinates of the  *)
(* model are small, so no int product overflows, the int-to-float          *)
(* conversions are exact, and a correctly rounded quotient compares with   *)
(* the thresholds of the model (all exactly representable) as the exact    *)
(* quotient does.                                                          *)
(***************************************************************************)
EXTENDS Integers, Sequences, FiniteSets

VARIABLES
    pc,         \* position of the running caller
    b1, b2,     \* the arguments of calculate_iou
    ret,        \* the value the last call returned
    threshold,  \* the threshold argument of frame_clean / union_frames
    f,          \* f.boxes of frame_clean's frame, f1.boxes of union_frames
    f2,         \* f2.boxes of union_frames
    result,     \* result.boxes of union_frames
    k,          \* number of boxes of f2 the loop of union_frames has consumed
    img,        \* the image of rgb2bgr
    keep,       \* history: the keep vector of the last frame_clean
    prev,       \* history: the object as it was before the last call / step
    calls,      \* history: number of calls done (union_frames: of boxes appended)
    origin      \* history: the input as given (union_frames: each entry as inserted)

vars ==
    <<pc, b1, b2, ret, threshold, f, f2, result, k, img, keep, prev, calls, origin>>

----------------------------------------------------------------------------
(* Bounds *)

MaxCoord == 2

MaxBoxes == 3

MaxCalls == 2

MaxPixels == 2

----------------------------------------------------------------------------
(* Values *)

Max(a, b) == IF a > b THEN a ELSE b

Min(a, b) == IF a < b THEN a ELSE b

Coord == 0..MaxCoord

\* struct box, lines 12-16
Box(x1, y1, x2, y2, type) ==
    [x1 |-> x1, y1 |-> y1, x2 |-> x2, y2 |-> y2, type |-> type]

\* the number of values of box::type: 0=FACE 1=GUN 2=MASK
NumTypes == 3

\* every rectangle over Coord, inverted and zero-area ones included
AllBoxes ==
    {Box(x1, y1, x2, y2, 0) : x1 \in Coord, y1 \in Coord, x2 \in Coord, y2 \in Coord}

Inverted(b) == b.x1 > b.x2 \/ b.y1 > b.y2

\* the float 0.0f
Zero == [num |-> 0, den |-> 1]

\* thresholds as exact fractions with a positive denominator
Thresholds == {[num |-> 0, den |-> 1], [num |-> 1, den |-> 2], [num |-> 1, den |-> 1]}

\* the float comparison v >= t; false when v is NaN
Ge(v, t) ==
    IF v.den = 0
    THEN v.num > 0
    ELSE IF v.den > 0
         THEN v.num * t.den >= t.num * v.den
         ELSE v.num * t.den <= t.num * v.den

----------------------------------------------------------------------------
(* calculate_iou, lines 41-57 *)

\* the mutant of NoOverlap that forgets the vertical test
NoOverlapXOnly(bA, bB) ==
    Max(bA.x1, bB.x1) > Min(bA.x2, bB.x2)

\* line 47: the early-return condition
NoOverlap(bA, bB) ==
    LET x_left   == Max(bA.x1, bB.x1)
        x_right  == Min(bA.x2, bB.x2)
        y_top    == Max(bA.y1, bB.y1)
        y_bottom == Min(bA.y2, bB.y2)
    IN  x_left > x_right \/ y_bottom < y_top

calculate_iou(bA, bB) ==
    LET x_left   == Max(bA.x1, bB.x1)
        x_right  == Min(bA.x2, bB.x2)
        y_top    == Max(bA.y1, bB.y1)
        y_bottom == Min(bA.y2, bB.y2)
        intersection == (x_right - x_left) * (y_bottom - y_top)
        b1_area == (bA.x2 - bA.x1) * (bA.y2 - bA.y1)
        b2_area == (bB.x2 - bB.x1) * (bB.y2 - bB.y1)
    IN  IF NoOverlap(bA, bB)
        THEN Zero
        ELSE [num |-> intersection, den |-> b1_area + b2_area - intersection]

InitIou ==
    /\ pc = "call"
    /\ b1 \in AllBoxes
    /\ b2 \in AllBoxes
    /\ ret = Zero
    /\ threshold = Zero
    /\ f = <<>>
    /\ f2 = <<>>
    /\ result = <<>>
    /\ k = 0
    /\ img = <<>>
    /\ keep = <<>>
    /\ prev = <<>>
    /\ calls = 0
    /\ origin = <<>>

\* one call calculate_iou(b1, b2)
CallIou ==
    /\ pc = "call"
    /\ ret' = calculate_iou(b1, b2)
    /\ pc' = "returned"
    /\ UNCHANGED <<b1, b2, threshold, f, f2, result, k, img, keep, prev, calls, origin>>

NextIou == CallIou

SpecIou == InitIou /\ [][NextIou]_vars

\* C4: calculate_iou returns a defined value r with 0 <= r <= 1 for every pair
\* of rectangles, and its divisor is never 0 when the division is reached.
IouInUnitInterval ==
    pc = "returned" => /\ ret.den > 0
                   /\ 0 <= ret.num
                   /\ ret.num <= ret.den

\* C5: when one of the two rectangles is inverted on some axis, calculate_iou
\* takes the no-overlap early return and returns exactly 0.
InvertedGivesZero ==
    (pc = "returned" /\ (Inverted(b1) \/ Inverted(b2)))
        => (NoOverlap(b1, b2) /\ ret = Zero)

\* an inverted rectangle against the rectangle that covers the whole plane of
\* the model: the call has returned
InvertedGivesZeroWitness ==
    /\ pc = "returned"
    /\ b1.x1 > b1.x2
    /\ b1.y1 < b1.y2
    /\ b2 = Box(0, 0, MaxCoord, MaxCoord, 0)
    /\ ret = Zero

----------------------------------------------------------------------------
(* frame_clean, lines 61-85 *)

\* The rectangles of a frame: every horizontal extent over Coord (inverted and
\* zero-width ones included) on the band y in [0, 1].  No line of lines 41-115
\* reads box::type; the extents are labelled so that all three types occur.
FrameBoxes ==
    {Box(x1, 0, x2, 1, (x1 + x2) % NumTypes) : x1 \in Coord, x2 \in Coord}

BoxSeqs(S, n) == UNION {[1..m -> S] : m \in 0..n}

\* lines 72 and 97: calculate_iou(...) >= threshold
IsCommon(bA, bB, t) == Ge(calculate_iou(bA, bB), t)

\* the mutant of SkipAnchor that lets a dropped box act as an anchor
SkipAnchorNever(kp, i) == FALSE

\* lines 66-68: a box already dropped is not used as an anchor
SkipAnchor(kp, i) == ~kp[i]

\* the mutant of FirstJ that compares the anchor with itself
FirstJSelf(i) == i

\* line 69: the inner loop starts right after the anchor
FirstJ(i) == i + 1

RECURSIVE InnerLoopBreak(_, _, _, _, _)
\* the mutant of InnerLoop that leaves the loop after the first drop
InnerLoopBreak(boxes, t, kp, i, j) ==
    IF j > Len(boxes)
    THEN kp
    ELSE IF IsCommon(boxes[i], boxes[j], t)
         THEN [kp EXCEPT ![j] = FALSE]
         ELSE InnerLoopBreak(boxes, t, kp, i, j + 1)

RECURSIVE InnerLoop(_, _, _, _, _)
\* lines 69-75: the inner loop from index j on, for the anchor i
InnerLoop(boxes, t, kp, i, j) ==
    IF j > Len(boxes)
    THEN kp
    ELSE InnerLoop(boxes, t,
                   IF IsCommon(boxes[i], boxes[j], t)
                   THEN [kp EXCEPT ![j] = FALSE]
                   ELSE kp,
                   i, j + 1)

RECURSIVE OuterLoop(_, _, _, _)
\* lines 65-76: the outer loop from index i on
OuterLoop(boxes, t, kp, i) ==
    IF i > Len(boxes)
    THEN kp
    ELSE IF SkipAnchor(kp, i)
         THEN OuterLoop(boxes, t, kp, i + 1)
         ELSE OuterLoop(boxes, t, InnerLoop(boxes, t, kp, i, FirstJ(i)), i + 1)

\* lines 63-76: the keep vector after both loops
KeepFlags(boxes, t) == OuterLoop(boxes, t, [n \in 1..Len(boxes) |-> TRUE], 1)

RECURSIVE Cleaned(_, _, _)
\* lines 78-83: cleaned_boxes, filled from index i on
Cleaned(boxes, kp, i) ==
    IF i > Len(boxes)
    THEN <<>>
    ELSE IF kp[i]
         THEN <<boxes[i]>> \o Cleaned(boxes, kp, i + 1)
         ELSE Cleaned(boxes, kp, i + 1)

\* the value of f.boxes after frame_clean(f, t)
frame_clean(boxes, t) == Cleaned(boxes, KeepFlags(boxes, t), 1)

InitClean ==
    /\ pc = "clean"
    /\ f \in BoxSeqs(FrameBoxes, MaxBoxes)
    /\ origin = f
    /\ threshold \in Thresholds
    /\ keep = <<>>
    /\ prev = <<>>
    /\ calls = 0
    /\ b1 = <<>>
    /\ b2 = <<>>
    /\ ret = Zero
    /\ f2 = <<>>
    /\ result = <<>>
    /\ k = 0
    /\ img = <<>>

\* one call frame_clean(f, threshold)
CallFrameClean ==
    /\ pc = "clean"
    /\ calls < MaxCalls
    /\ prev' = f
    /\ keep' = KeepFlags(f, threshold)
    /\ f' = frame_clean(f, threshold)
    /\ calls' = calls + 1
    /\ UNCHANGED <<pc, b1, b2, ret, threshold, f2, result, k, img, origin>>

NextClean == CallFrameClean

SpecClean == InitClean /\ [][NextClean]_vars

RECURSIVE Restrict(_, _, _)
\* the boxes of seq at the indices of S that are >= i, in their order
Restrict(seq, S, i) ==
    IF i > Len(seq)
    THEN <<>>
    ELSE IF i \in S
         THEN <<seq[i]>> \o Restrict(seq, S, i + 1)
         ELSE Restrict(seq, S, i + 1)

\* C2: frame_clean is idempotent: a second frame_clean(f, t) on the output of a
\* first one leaves f.boxes as the first one left it.
CleanIdempotent ==
    (pc = "clean" /\ calls >= 2) => f = prev

\* a first call that dropped a box and kept two, followed by a second call
CleanIdempotentWitness ==
    /\ pc = "clean"
    /\ calls = 2
    /\ Len(origin) = 3
    /\ Len(f) = 2
    /\ IsCommon(origin[2], origin[3], threshold)

\* C3: the output of frame_clean is a subsequence of its input: never longer,
\* made of unmodified input boxes in their original relative order, and the
\* first input box always survives (no box gives no box, one box is returned
\* unchanged).
CleanSubsequence ==
    (pc = "clean" /\ calls >= 1) =>
        /\ Len(f) <= Len(prev)
        /\ \E S \in SUBSET (1..Len(prev)) :
              /\ f = Restrict(prev, S, 1)
              /\ prev # <<>> => 1 \in S
        /\ prev # <<>> => (f # <<>> /\ f[1] = prev[1])
        /\ Len(prev) <= 1 => f = prev

\* the first call kept the first and the last of three boxes
CleanSubsequenceWitness ==
    /\ pc = "clean"
    /\ calls = 1
    /\ Len(prev) = 3
    /\ f = <<prev[1], prev[3]>>
    /\ prev[2] # prev[1]

\* C7: frame_clean drops the box at index j exactly when an earlier box that
\* survives has IoU >= threshold with it; a dropped box is never an anchor.
\* Hence no two boxes of the output have IoU >= threshold.
CleanDropsIffAnchor ==
    (pc = "clean" /\ calls >= 1) =>
        /\ Len(keep) = Len(prev)
        /\ f = Restrict(prev, {j \in 1..Len(prev) : keep[j]}, 1)
        /\ \A j \in 1..Len(prev) :
              ~keep[j] <=> \E i \in 1..(j - 1) :
                              keep[i] /\ IsCommon(prev[i], prev[j], threshold)
        /\ \A p \in 1..Len(f) : \A q \in 1..Len(f) :
              p # q => ~IsCommon(f[p], f[q], threshold)

\* the second box was dropped by the first, and the third, which has
\* IoU >= threshold with the dropped second box only, survived
CleanDropsIffAnchorWitness ==
    /\ pc = "clean"
    /\ calls = 1
    /\ Len(prev) = 3
    /\ keep = <<TRUE, FALSE, TRUE>>
    /\ IsCommon(prev[2], prev[3], threshold)
    /\ ~IsCommon(prev[1], prev[3], threshold)

----------------------------------------------------------------------------
(* union_frames, lines 90-115 *)

\* the rectangles of the frames of union_frames: those of FrameBoxes with
\* x1 <= x2, and the inverted one with x1 = MaxCoord, x2 = 0
UnionBoxes == {b \in FrameBoxes : ~Inverted(b) \/ (b.x1 = MaxCoord /\ b.x2 = 0)}

\* the mutant of Merge that takes the type of box2
MergeTypeOfBox2(box1, box2) ==
    Box(Min(box1.x1, box2.x1), Min(box1.y1, box2.y1),
        Max(box1.x2, box2.x2), Max(box1.y2, box2.y2), box2.type)

\* the mutant of Merge that keeps the common part instead of the envelope
MergeIntersection(box1, box2) ==
    [box1 EXCEPT !.x1 = Max(box1.x1, box2.x1), !.y1 = Max(box1.y1, box2.y1),
                 !.x2 = Min(box1.x2, box2.x2), !.y2 = Min(box1.y2, box2.y2)]

\* lines 100-103: box1 after it absorbed box2
Merge(box1, box2) ==
    [box1 EXCEPT !.x1 = Min(box1.x1, box2.x1), !.y1 = Min(box1.y1, box2.y1),
                 !.x2 = Max(box1.x2, box2.x2), !.y2 = Max(box1.y2, box2.y2)]

\* the mutant of PushBack that inserts at the front
PushFront(boxes, box2) == <<box2>> \o boxes

\* line 110: result.boxes.push_back(box2)
PushBack(boxes, box2) == Append(boxes, box2)

\* the mutant of ScanStart that skips the first entry
ScanStartSecond(boxes) == 2

\* line 96: the scan of result.boxes starts at its first entry
ScanStart(boxes) == 1

RECURSIVE Scan(_, _, _, _)
\* lines 94-111: the scan of result.boxes for box2 from entry n on; the first
\* entry with IoU >= threshold absorbs box2 and ends the scan, and box2 is
\* appended when the scan ends with merged = false
Scan(boxes, box2, t, n) ==
    IF n > Len(boxes)
    THEN PushBack(boxes, box2)
    ELSE IF IsCommon(boxes[n], box2, t)
         THEN [boxes EXCEPT ![n] = Merge(boxes[n], box2)]
         ELSE Scan(boxes, box2, t, n + 1)

\* the body of the loop of line 93 for one box of f2
ProcessBox(boxes, box2, t) == Scan(boxes, box2, t, ScanStart(boxes))

InitUnion ==
    /\ pc = "copy"
    /\ f \in BoxSeqs(UnionBoxes, MaxBoxes)
    /\ f2 \in BoxSeqs(UnionBoxes, MaxBoxes - Len(f))
    /\ threshold \in Thresholds
    /\ result = <<>>
    /\ k = 0
    /\ prev = <<>>
    /\ calls = 0
    /\ origin = <<>>
    /\ b1 = <<>>
    /\ b2 = <<>>
    /\ ret = Zero
    /\ img = <<>>
    /\ keep = <<>>

\* line 91: frame result = f1
UnionCopy ==
    /\ pc = "copy"
    /\ result' = f
    /\ origin' = f
    /\ pc' = "loop"
    /\ UNCHANGED <<b1, b2, ret, threshold, f, f2, k, img, keep, prev, calls>>

\* lines 93-112: one iteration of the loop over f2.boxes
UnionStep ==
    /\ pc = "loop"
    /\ k < Len(f2)
    /\ result' = ProcessBox(result, f2[k + 1], threshold)
    /\ k' = k + 1
    /\ prev' = result
    /\ calls' = IF \E n \in 1..Len(result) : IsCommon(result[n], f2[k + 1], threshold)
                THEN calls
                ELSE calls + 1
    /\ origin' = IF Len(result') > Len(origin)
                 THEN Append(origin, f2[k + 1])
                 ELSE origin
    /\ UNCHANGED <<pc, b1, b2, ret, threshold, f, f2, img, keep>>

\* line 114: return result
UnionReturn ==
    /\ pc = "loop"
    /\ k = Len(f2)
    /\ pc' = "done"
    /\ UNCHANGED <<b1, b2, ret, threshold, f, f2, result, k, img, keep, prev, calls, origin>>

NextUnion == UnionCopy \/ UnionStep \/ UnionReturn

SpecUnion == InitUnion /\ [][NextUnion]_vars

\* no box of seq has IoU >= t with a later box of seq: frame_clean(seq, t)
\* drops nothing
DuplicateFree(seq, t) ==
    \A i \in 1..Len(seq) : \A j \in (i + 1)..Len(seq) : ~IsCommon(seq[i], seq[j], t)

\* box b lies inside box e
Contains(e, b) == b.x1 >= e.x1 /\ b.y1 >= e.y1 /\ b.x2 <= e.x2 /\ b.y2 <= e.y2

\* C1 as stated: union_frames with an empty primary returns the secondary
\* unchanged, for every box sequence and every threshold.
EmptyPrimaryReturnsSecondary ==
    (pc = "done" /\ f = <<>>) => result = f2

\* C1 as amended: union_frames with an empty primary returns the secondary
\* unchanged when no box of the secondary has IoU >= threshold with a later one.
EmptyPrimaryReturnsCleanSecondary ==
    (pc = "done" /\ f = <<>> /\ DuplicateFree(f2, threshold)) => result = f2

\* an empty primary and three secondary boxes, all returned
EmptyPrimaryWitness ==
    /\ pc = "done"
    /\ f = <<>>
    /\ Len(f2) = 3
    /\ f2[1] # f2[2]
    /\ DuplicateFree(f2, threshold)
    /\ result = f2

UnionDuplicatesOnlyByGrowth ==
    (/\ pc \in {"loop", "done"}
     /\ DuplicateFree(f, threshold)
     /\ DuplicateFree(f2, threshold)) =>
        /\ Len(origin) = Len(result)
        /\ \A p \in 1..Len(result) : \A q \in 1..Len(result) :
              (p # q /\ IsCommon(result[p], result[q], threshold))
                  => (result[p] # origin[p] \/ result[q] # origin[q])

\* duplicate-free primary and secondary, and a result on which frame_clean
\* would still drop a box
UnionDuplicatesWitness ==
    /\ pc = "done"
    /\ DuplicateFree(f, threshold)
    /\ DuplicateFree(f2, threshold)
    /\ ~DuplicateFree(result, threshold)
    /\ frame_clean(f, threshold) = f
    /\ frame_clean(f2, threshold) = f2
    /\ Len(frame_clean(result, threshold)) < Len(result)

----------------------------------------------------------------------------
(* rgb2bgr, lines 24-39 *)

\* the number of values of image::format: 0=GRAY 1=RGB 2=BGR
NumFormats == 3

\* bytes per pixel of a format
Channels(format) == IF format = 0 THEN 1 ELSE 3

\* the byte values of the model: the two of the buffer of test_rgb2bgr
Bytes == {0, 255}

\* struct image, lines 6-10, with a buffer of Channels * width * height bytes
Images ==
    UNION {[width : {w}, height : {h}, format : {fm},
            data : [1..(Channels(fm) * w * h) -> Bytes]] :
           <<w, h, fm>> \in {d \in (0..MaxPixels) \X (0..MaxPixels) \X (0..(NumFormats - 1)) :
                               d[1] * d[2] <= MaxPixels}}

\* the mutant of NotRgb that accepts every format
NotRgbNever(image) == FALSE

\* line 26: the image is not an RGB image
NotRgb(image) == image.format # 1

RECURSIVE SwapLoop(_, _, _)
\* lines 32-35: the loop from pixel i on; ptr is data + 3 * i
SwapLoop(data, i, n) ==
    IF i >= n
    THEN data
    ELSE SwapLoop([data EXCEPT ![3 * i + 1] = data[3 * i + 3],
                               ![3 * i + 3] = data[3 * i + 1]],
                  i + 1, n)

\* the value returned and the image left by rgb2bgr(image)
rgb2bgr(image) ==
    IF NotRgb(image)
    THEN [ret |-> FALSE, img |-> image]
    ELSE [ret |-> TRUE,
          img |-> [image EXCEPT
                      !.data = SwapLoop(image.data, 0, image.height * image.width),
                      !.format = 2]]

InitRgb ==
    /\ pc = "rgb"
    /\ img \in Images
    /\ origin = img
    /\ prev = <<>>
    /\ ret = FALSE
    /\ calls = 0
    /\ b1 = <<>>
    /\ b2 = <<>>
    /\ threshold = Zero
    /\ f = <<>>
    /\ f2 = <<>>
    /\ result = <<>>
    /\ k = 0
    /\ keep = <<>>

\* one call rgb2bgr(img)
CallRgb2Bgr ==
    /\ pc = "rgb"
    /\ calls < MaxCalls
    /\ prev' = img
    /\ img' = rgb2bgr(img).img
    /\ ret' = rgb2bgr(img).ret
    /\ calls' = calls + 1
    /\ UNCHANGED <<pc, b1, b2, threshold, f, f2, result, k, keep, origin>>

NextRgb == CallRgb2Bgr

SpecRgb == InitRgb /\ [][NextRgb]_vars

\* C6: on an RGB image rgb2bgr returns true, swaps byte 0 and byte 2 of each of
\* the width * height pixels, leaves byte 1, and sets the format to BGR; on any
\* other image it returns false and leaves data and format unchanged.  So in a
\* sequence of calls on one image at most the first changes the data.
RgbToBgrEffect ==
    (pc = "rgb" /\ calls >= 1) =>
        /\ IF prev.format = 1
           THEN /\ ret = TRUE
                /\ img.format = 2
                /\ img.width = prev.width
                /\ img.height = prev.height
                /\ Len(img.data) = Len(prev.data)
                /\ \A px \in 0..(prev.width * prev.height - 1) :
                      /\ img.data[3 * px + 1] = prev.data[3 * px + 3]
                      /\ img.data[3 * px + 2] = prev.data[3 * px + 2]
                      /\ img.data[3 * px + 3] = prev.data[3 * px + 1]
           ELSE /\ ret = FALSE
                /\ img = prev
        /\ calls >= 2 => img.data = prev.data

\* an RGB image of two pixels whose first call changed the data and whose
\* second call was refused
RgbToBgrWitness ==
    /\ pc = "rgb"
    /\ calls = 2
    /\ origin.format = 1
    /\ origin.width * origin.height = 2
    /\ img.data # origin.data
    /\ img.data[4] = origin.data[6]
    /\ img.data[4] # origin.data[4]
    /\ ret = FALSE

----------------------------------------------------------------------------
(* The program: each caller runs one of the operations *)

Init == InitIou \/ InitClean \/ InitUnion \/ InitRgb

Next == CallIou \/ CallFrameClean \/ UnionCopy \/ UnionStep \/ UnionReturn \/ CallRgb2Bgr

Spec == Init /\ [][Next]_vars

====
